---- MODULE Spec2Model ----
(***************************************************************************)
(* Model of the music request path of Tambo-MusicPlayer:                   *)
(*   agent tool (src/lib/tambo.ts)                                         *)
(*     -> Track Fetch Client (services/music-data, src/unnamed/part_000)   *)
(*     -> Search / Discovery proxy (app/api/music/.../route.ts)            *)
(*     -> Deezer (opaque upstream).                                        *)
(* Every async function is cut at its awaits: the code between two awaits  *)
(* runs atomically on the event loop and is one action.                    *)
(*                                                                         *)
(* Strings that the code inspects (queries, URLs, error messages) are      *)
(* sequences of tokens: a query is a sequence of characters, a URL search  *)
(* part a sequence of URL tokens ("%26" is one token), a message a         *)
(* sequence of text pieces.  JSON payloads are compared as parsed values.  *)
(***************************************************************************)
EXTENDS Integers, Sequences, FiniteSets, TLC

\* ------------------------------------------------------------------ bounds
MaxQueryLen == 2
MaxResults == 2
MaxTrackId == 2
RandDen == 12

\* ------------------------------------------------------------- JS values
\* "LS" stands for a lone UTF-16 surrogate, the one kind of code unit
\* encodeURIComponent rejects.
QueryChars == {"a", "+", "&", "LS"}

RECURSIVE SeqsUpTo(_, _)
SeqsUpTo(S, n) ==
  IF n = 0 THEN {<<>>}
  ELSE LET shorter == SeqsUpTo(S, n - 1)
       IN  shorter \cup {Append(s, x) : s \in {t \in shorter : Len(t) = n - 1}, x \in S}

Queries == SeqsUpTo(QueryChars, MaxQueryLen)

Str(s) == [t |-> "string", v |-> s]
Null == [t |-> "null", v |-> <<>>]
Undefined == [t |-> "undefined", v |-> <<>>]
Num(n) == [t |-> "number", v |-> <<ToString(n)>>]
Obj(s) == [t |-> "object", v |-> s]

\* JS truthiness of the values above (used by `!query`, `data.error`, `||`).
\* A track (a record without a type tag) is an object.
Truthy(x) ==
  CASE "t" \notin DOMAIN x -> TRUE
    [] x.t = "string" -> x.v # <<>>
    [] x.t = "number" -> x.v # <<"0">>
    [] x.t = "object" -> TRUE
    [] x.t = "array" -> TRUE
    [] OTHER -> FALSE

\* String(x), as `new Error(x)` applies it to its argument.
ToStringJS(x) ==
  CASE x.t = "string" -> x.v
    [] x.t = "object" -> <<"[object Object]">>
    [] x.t = "number" -> x.v
    [] OTHER -> <<x.t>>

TrackInfo(i) ==
  [id |-> i,
   title |-> <<"title", i>>,
   artist |-> [id |-> i, name |-> <<"artist", i>>, picture_medium |-> <<"picture", i>>],
   album |-> [id |-> i, title |-> <<"album", i>>, cover_medium |-> <<"cover", i>>],
   duration |-> 180 + i,
   preview |-> <<"preview", i>>,
   link |-> <<"link", i>>,
   rank |-> 1000 + i]

Tracks == {TrackInfo(i) : i \in 1..MaxTrackId}

Arr(s) == [t |-> "array", v |-> s]

\* ---------------------------------------------------------- URL encoding
\* encodeURIComponent on one character: unreserved characters stay, every
\* other one becomes its percent escape.
EscapeChar(c) ==
  CASE c = "a" -> "a"
    [] c = "+" -> "%2B"
    [] c = "&" -> "%26"
    [] c = "=" -> "%3D"
    [] c = " " -> "%20"
    [] OTHER -> c

IsWellFormed(s) == \A i \in 1..Len(s) : s[i] # "LS"

\* encodeURIComponent(s): throws URIError on a lone surrogate.
encodeURIComponent(s) ==
  IF IsWellFormed(s)
  THEN [t |-> "return", v |-> [i \in 1..Len(s) |-> EscapeChar(s[i])]]
  ELSE [t |-> "throw", v |-> <<"URIError: URI malformed">>]

\* application/x-www-form-urlencoded decoding of one URL token, as
\* URLSearchParams does it: "+" is a space, a percent escape is its byte.
UnescapeToken(u) ==
  CASE u = "+" -> " "
    [] u = "%2B" -> "+"
    [] u = "%26" -> "&"
    [] u = "%3D" -> "="
    [] u = "%20" -> " "
    [] OTHER -> u

Decode(s) == [i \in 1..Len(s) |-> UnescapeToken(s[i])]

\* index of the first occurrence of token u in s, 0 when there is none
RECURSIVE IndexOf(_, _, _)
IndexOf(s, u, from) ==
  IF from > Len(s) THEN 0
  ELSE IF s[from] = u THEN from
  ELSE IndexOf(s, u, from + 1)

\* searchParams.get(name) on the search part of a URL (the tokens after
\* "?"): split on "&", split each piece at its first "=", decode both
\* halves, return the value of the first pair with that name, else null.
RECURSIVE SearchParamsGet(_, _)
SearchParamsGet(search, name) ==
  IF search = <<>> THEN Null
  ELSE LET amp == IndexOf(search, "&", 1)
           piece == IF amp = 0 THEN search ELSE SubSeq(search, 1, amp - 1)
           rest == IF amp = 0 THEN <<>> ELSE SubSeq(search, amp + 1, Len(search))
           eq == IndexOf(piece, "=", 1)
           key == IF eq = 0 THEN piece ELSE SubSeq(piece, 1, eq - 1)
           val == IF eq = 0 THEN <<>> ELSE SubSeq(piece, eq + 1, Len(piece))
       IN  IF piece # <<>> /\ Decode(key) = name
           THEN Str(Decode(val))
           ELSE SearchParamsGet(rest, name)

\* ------------------------------------------------- completions, responses
Return(x) == [t |-> "return", v |-> x, msg |-> <<>>]
Throw(m) == [t |-> "throw", v |-> Null, msg |-> m]

\* a JSON object with the two fields this program reads
Payload(d, e) == [data |-> d, error |-> e]
ErrorPayload(m) == Payload(Undefined, Str(m))

\* NextResponse.json(body, {status}); a fetch Response seen by its caller
JsonResponse(status, body) == [t |-> "response", status |-> status, json |-> TRUE, body |-> body]
NotJsonResponse(status) == [t |-> "response", status |-> status, json |-> FALSE, body |-> Payload(Undefined, Undefined)]
Rejected(detail) == [t |-> "reject", status |-> 0, json |-> FALSE, body |-> Payload(Undefined, Undefined), detail |-> detail]
NoResponse == [t |-> "none", status |-> 0, json |-> FALSE, body |-> Payload(Undefined, Undefined)]

\* response.ok
Ok(r) == r.status >= 200 /\ r.status <= 299

\* what Deezer (or the network on the way to it) can answer
UpstreamStatuses == {200, 404, 500}
UpstreamErrors == {Undefined, Str(<<>>), Str(<<"Quota limit exceeded">>), Obj(<<"type", "message", "code">>)}
UpstreamData == {Undefined} \cup {Arr(s) : s \in SeqsUpTo(Tracks, MaxResults)}
UpstreamPayloads == {Payload(d, e) : d \in UpstreamData, e \in UpstreamErrors}
UpstreamFailures == {<<"ECONNREFUSED">>, <<"ETIMEDOUT">>}
UpstreamOutcomes ==
  {Rejected(f) : f \in UpstreamFailures}
    \cup {NotJsonResponse(st) : st \in UpstreamStatuses}
    \cup {JsonResponse(st, b) : st \in UpstreamStatuses, b \in UpstreamPayloads}

\* ------------------------------------------------------------ the proxies
MOOD_QUERIES ==
  << Str(<<"happy", " ", "upbeat", " ", "songs">>),
     Str(<<"chill", " ", "relaxing", " ", "music">>),
     Str(<<"energetic", " ", "workout", " ", "songs">>),
     Str(<<"feel", " ", "good", " ", "vibes">>),
     Str(<<"motivational", " ", "music">>),
     Str(<<"peaceful", " ", "ambient">>),
     Str(<<"uplifting", " ", "pop", " ", "songs">>),
     Str(<<"smooth", " ", "jazz">>),
     Str(<<"indie", " ", "feel", " ", "good">>),
     Str(<<"classic", " ", "rock", " ", "hits">>) >>

\* Math.random() is r / RandDen with r in 0..RandDen-1, never 1.
Randoms == 0..(RandDen - 1)

\* variant: rounds up instead of down
RandomIndexCeil(r, n) == (r * n + RandDen - 1) \div RandDen

\* Math.floor(Math.random() * n), a 0-based index
RandomIndex(r, n) == (r * n) \div RandDen

\* arr[k] for a 0-based k: undefined outside the array
At(arr, k) == IF k + 1 \in 1..Len(arr) THEN arr[k + 1] ELSE Undefined

\* the URL of the request to Deezer
DeezerUrl(encoded, limit) ==
  [path |-> "https://api.deezer.com/search",
   search |-> <<"q", "=">> \o encoded \o <<"&", "limit", "=", limit>>]

\* variant: rejects only an absent parameter (`query === null`)
SearchGETStartNullOnly(request) ==
  LET query == SearchParamsGet(request.search, <<"q">>)
  IN  IF query = Null
      THEN [fetch |-> FALSE, url |-> DeezerUrl(<<>>, "10"), query |-> query,
            done |-> Return(JsonResponse(400, ErrorPayload(<<"Query parameter is required">>)))]
      ELSE [fetch |-> TRUE, url |-> DeezerUrl(encodeURIComponent(query.v).v, "10"),
            query |-> query, done |-> Return(NoResponse)]

\* Search route, from its entry to `await fetch(...)`:
\* a completion (the 400 answer or a throw), or the upstream request to send.
SearchGETStart(request) ==
  LET query == SearchParamsGet(request.search, <<"q">>)
  IN  IF ~Truthy(query)
      THEN [fetch |-> FALSE, url |-> DeezerUrl(<<>>, "10"), query |-> query,
            done |-> Return(JsonResponse(400, ErrorPayload(<<"Query parameter is required">>)))]
      ELSE LET enc == encodeURIComponent(query.v)
           IN  IF enc.t = "throw"
               THEN [fetch |-> FALSE, url |-> DeezerUrl(<<>>, "10"), query |-> query,
                     done |-> Throw(enc.v)]
               ELSE [fetch |-> TRUE, url |-> DeezerUrl(enc.v, "10"), query |-> query,
                     done |-> Return(NoResponse)]

\* variant: rebuilds the payload from its result list, as the random route does
SearchGETResumeRebuilt(response) ==
  IF response.t = "reject" THEN Throw(<<"TypeError: fetch failed">>)
  ELSE IF ~Ok(response) THEN Throw(<<"Deezer API error: ", ToString(response.status)>>)
  ELSE IF ~response.json THEN Throw(<<"SyntaxError: Unexpected token">>)
  ELSE Return(JsonResponse(200, Payload(response.body.data, Undefined)))

\* Search route, from the settled fetch to the end of the try block.
SearchGETResume(response) ==
  IF response.t = "reject" THEN Throw(<<"TypeError: fetch failed">>)
  ELSE IF ~Ok(response) THEN Throw(<<"Deezer API error: ", ToString(response.status)>>)
  ELSE IF ~response.json THEN Throw(<<"SyntaxError: Unexpected token">>)
  ELSE Return(JsonResponse(200, response.body))

\* variant: answers with the message of the caught error
SearchGETCatchLeaky(c) ==
  IF c.t = "throw"
  THEN Return(JsonResponse(500, ErrorPayload(c.msg)))
  ELSE c

\* catch block of the search route
SearchGETCatch(c) ==
  IF c.t = "throw"
  THEN Return(JsonResponse(500, ErrorPayload(<<"Failed to search for music">>)))
  ELSE c

\* Random route, from its entry to `await fetch(...)`; r is Math.random().
RandomGETStart(r) ==
  LET randomQuery == At(MOOD_QUERIES, RandomIndex(r, Len(MOOD_QUERIES)))
      enc == encodeURIComponent(ToStringJS(randomQuery))
  IN  [fetch |-> TRUE, url |-> DeezerUrl(enc.v, "50"), randomQuery |-> randomQuery,
       index |-> RandomIndex(r, Len(MOOD_QUERIES))]

\* the index the random route draws for the track; -1 when it draws none
RandomTrackIndex(response, r) ==
  IF /\ response.t = "response" /\ Ok(response) /\ response.json
     /\ Truthy(response.body.data) /\ Len(response.body.data.v) > 0
  THEN RandomIndex(r, Len(response.body.data.v))
  ELSE -1

\* variant: always answers with the first track of the list
RandomGETResumeFirst(response, r) ==
  IF response.t = "reject" THEN Throw(<<"TypeError: fetch failed">>)
  ELSE IF ~Ok(response) THEN Throw(<<"Deezer API error: ", ToString(response.status)>>)
  ELSE IF ~response.json THEN Throw(<<"SyntaxError: Unexpected token">>)
  ELSE LET data == response.body
       IN  IF Truthy(data.data) /\ Len(data.data.v) > 0
           THEN Return(JsonResponse(200, Payload(Arr(<<At(data.data.v, 0)>>), Undefined)))
           ELSE Return(JsonResponse(200, Payload(Arr(<<>>), Undefined)))

\* variant: treats an empty result list as a failure
RandomGETResumeEmptyThrows(response, r) ==
  IF response.t = "reject" THEN Throw(<<"TypeError: fetch failed">>)
  ELSE IF ~Ok(response) THEN Throw(<<"Deezer API error: ", ToString(response.status)>>)
  ELSE IF ~response.json THEN Throw(<<"SyntaxError: Unexpected token">>)
  ELSE LET data == response.body
       IN  IF Truthy(data.data) /\ Len(data.data.v) > 0
           THEN LET randomTrack == At(data.data.v, RandomTrackIndex(response, r))
                IN  Return(JsonResponse(200, Payload(Arr(<<randomTrack>>), Undefined)))
           ELSE Throw(<<"No tracks found">>)

\* Random route, from the settled fetch to the end of the try block.
RandomGETResume(response, r) ==
  IF response.t = "reject" THEN Throw(<<"TypeError: fetch failed">>)
  ELSE IF ~Ok(response) THEN Throw(<<"Deezer API error: ", ToString(response.status)>>)
  ELSE IF ~response.json THEN Throw(<<"SyntaxError: Unexpected token">>)
  ELSE LET data == response.body
       IN  IF Truthy(data.data) /\ Len(data.data.v) > 0
           THEN LET randomTrack == At(data.data.v, RandomTrackIndex(response, r))
                IN  Return(JsonResponse(200, Payload(Arr(<<randomTrack>>), Undefined)))
           ELSE Return(JsonResponse(200, Payload(Arr(<<>>), Undefined)))

\* catch block of the random route
RandomGETCatch(c) ==
  IF c.t = "throw"
  THEN Return(JsonResponse(500, ErrorPayload(<<"Failed to get random music">>)))
  ELSE c

\* What the caller of a route receives: the handler's response, or the
\* framework's own 500 page when the handler throws.
RouteResponse(c) == IF c.t = "return" THEN c.v ELSE NotJsonResponse(500)

\* ------------------------------------------------- the Track Fetch Client
SearchPath == "/api/music/search"
RandomPath == "/api/music/random"

\* searchMusic(query), from its entry to `await fetch(...)`
searchMusicStart(query) ==
  LET enc == encodeURIComponent(query)
  IN  IF enc.t = "throw"
      THEN [fetch |-> FALSE, url |-> [path |-> SearchPath, search |-> <<>>], done |-> Throw(enc.v)]
      ELSE [fetch |-> TRUE, url |-> [path |-> SearchPath, search |-> <<"q", "=">> \o enc.v],
            done |-> Return(Null)]

\* variant: reads the payload's error before it looks at the status
searchMusicResumeErrorFirst(response) ==
  IF response.t = "reject" THEN Throw(<<"TypeError: Failed to fetch">>)
  ELSE IF ~response.json THEN Throw(<<"SyntaxError: Unexpected token">>)
  ELSE LET data == response.body
       IN  IF Truthy(data.error) THEN Throw(ToStringJS(data.error))
           ELSE IF ~Ok(response) THEN Throw(<<"API error: ", ToString(response.status)>>)
           ELSE IF Truthy(data.data) THEN Return(data.data)
           ELSE Return(Arr(<<>>))

\* searchMusic, from the settled fetch to its end (the catch rethrows)
searchMusicResume(response) ==
  IF response.t = "reject" THEN Throw(<<"TypeError: Failed to fetch">>)
  ELSE IF ~Ok(response) THEN Throw(<<"API error: ", ToString(response.status)>>)
  ELSE IF ~response.json THEN Throw(<<"SyntaxError: Unexpected token">>)
  ELSE LET data == response.body
       IN  IF Truthy(data.error) THEN Throw(ToStringJS(data.error))
           ELSE IF Truthy(data.data) THEN Return(data.data)
           ELSE Return(Arr(<<>>))

\* getRandomSong, from its entry to `await fetch(...)`
getRandomSongStart == [fetch |-> TRUE, url |-> [path |-> RandomPath, search |-> <<>>]]

\* variant: raises when the list holds no track
getRandomSongResumeThrowsOnEmpty(response) ==
  IF response.t = "reject" THEN Throw(<<"TypeError: Failed to fetch">>)
  ELSE IF ~Ok(response) THEN Throw(<<"API error: ", ToString(response.status)>>)
  ELSE IF ~response.json THEN Throw(<<"SyntaxError: Unexpected token">>)
  ELSE LET data == response.body
       IN  IF Truthy(data.error) THEN Throw(ToStringJS(data.error))
           ELSE LET first == IF Truthy(data.data) THEN At(data.data.v, 0) ELSE Undefined
                IN  IF Truthy(first) THEN Return(first)
                    ELSE Throw(<<"No random music found">>)

\* getRandomSong, from the settled fetch to its end (the catch rethrows)
getRandomSongResume(response) ==
  IF response.t = "reject" THEN Throw(<<"TypeError: Failed to fetch">>)
  ELSE IF ~Ok(response) THEN Throw(<<"API error: ", ToString(response.status)>>)
  ELSE IF ~response.json THEN Throw(<<"SyntaxError: Unexpected token">>)
  ELSE LET data == response.body
       IN  IF Truthy(data.error) THEN Throw(ToStringJS(data.error))
           ELSE LET first == IF Truthy(data.data) THEN At(data.data.v, 0) ELSE Undefined
                IN  IF Truthy(first) THEN Return(first) ELSE Return(Null)

\* --------------------------------------------------------- the agent tools
\* the object literal both tools return
MusicCardPayload(track) ==
  [id |-> track.id,
   title |-> track.title,
   artist |-> track.artist.name,
   album |-> track.album.title,
   duration |-> track.duration,
   preview |-> track.preview,
   link |-> track.link,
   artistImage |-> track.artist.picture_medium,
   albumCover |-> track.album.cover_medium,
   rank |-> track.rank]

\* catch block of both tools: `throw new Error(error.message)`
ToolCatch(c) == IF c.t = "throw" THEN Throw(c.msg) ELSE c

\* the guard of the searchMusic tool: `!query || typeof query !== 'string'`
InvalidQuery(query) == ~Truthy(query) \/ query.t # "string"

\* searchMusic tool, from its entry to `await searchMusic(query)`:
\* call |-> TRUE when the fetch client is called.
SearchToolStart(query) ==
  IF InvalidQuery(query)
  THEN [call |-> FALSE, done |-> ToolCatch(Throw(<<"Invalid search query provided">>))]
  ELSE [call |-> TRUE, done |-> Return(Null)]

\* variant: a message without the query
NoMusicFoundGeneric(query) == <<"No music found">>

\* the message of the searchMusic tool for an empty result list
NoMusicFound(query) == <<"No music found for \"">> \o query \o <<"\"">>

\* variant: builds the card from the last track of the list
SearchToolResumeLast(query, client) ==
  ToolCatch(
    IF client.t = "throw" THEN client
    ELSE LET tracks == client.v
         IN  IF ~Truthy(tracks) \/ Len(tracks.v) = 0
             THEN Throw(NoMusicFound(query.v))
             ELSE Return(MusicCardPayload(tracks.v[Len(tracks.v)])))

\* searchMusic tool, from the settled client call to its end
SearchToolResume(query, client) ==
  ToolCatch(
    IF client.t = "throw" THEN client
    ELSE LET tracks == client.v
         IN  IF ~Truthy(tracks) \/ Len(tracks.v) = 0
             THEN Throw(NoMusicFound(query.v))
             ELSE Return(MusicCardPayload(tracks.v[1])))

\* getRandomMusic tool, from the settled client call to its end
RandomToolResume(client) ==
  ToolCatch(
    IF client.t = "throw" THEN client
    ELSE LET track == client.v
         IN  IF ~Truthy(track)
             THEN Throw(<<"No random music found">>)
             ELSE Return(MusicCardPayload(track)))

\* arguments the agent can pass to the searchMusic tool
ToolQueries == {Undefined, Num(42)} \cup {Str(q) : q \in Queries}

\* search parts of requests sent to the search route by other callers
\* (a URL is well formed: its decoded parameters hold no lone surrogate)
RawSearches ==
  {<<>>, <<"q">>, <<"q", "=">>, <<"x", "=", "a">>, <<"x", "=", "a", "&", "q", "=", "a">>,
   <<"q", "=", "a", "+", "a">>, <<"q", "=", "a", "&", "q", "=">>}
    \cup {<<"q", "=">> \o encodeURIComponent(q).v : q \in {s \in Queries : IsWellFormed(s)}}

\* ------------------------------------------------------------------ state
VARIABLES
  pc,             \* where the one invocation under way stands
  op,             \* "search" or "random"
  origin,         \* "tool": called by the agent tool; "direct": any HTTP caller
  args,           \* the query argument of the searchMusic tool
  proxyReqs,      \* requests the fetch client has sent to a proxy
  request,        \* the request the proxy handler receives
  query,          \* the search route's `query`
  routeCalls,     \* invocations of a route handler
  randomQuery,    \* the random route's `randomQuery`
  moodIndex,      \* the index the random route drew for the phrase, -1 if none
  trackIndex,     \* the index the random route drew for the track, -1 if none
  upstreamReqs,   \* requests the proxy has sent to Deezer
  upstream,       \* how the request to Deezer settled
  escaped,        \* an exception left a route handler
  proxyResponse,  \* the response of the route handler
  fetched,        \* how the fetch of the client settled
  clientResult,   \* completion of searchMusic / getRandomSong
  toolResult      \* completion of the agent tool

\* state of one MusicCardCore instance (the Preview Player)
VARIABLES
  mounted,        \* the instance is mounted
  state,          \* the useState values after every update scheduled so far
  rendered,       \* the useState values of the committed render (closures, DOM)
  intervalRef,    \* intervalRef.current, 0 for null
  timers,         \* the intervals of this instance that are active in the browser
  timerSeq,       \* interval ids handed out so far
  effectDeps,     \* [isPlaying, audio] of the last run of the progress effect
  effectsPending, \* a commit whose passive effects have not run yet
  audios,         \* the Audio elements this instance has created
  attempts,       \* the play() calls of togglePlay and how each promise settled
  unhandled,      \* a rejection left togglePlay
  last,           \* the step taken last, with its argument
  seekMark,       \* the last accepted seek, and whether the resource moved since
  completed       \* the resource signalled completion; no play request or seek since

reqVars == <<pc, op, origin, args, proxyReqs, request, routeCalls, query, randomQuery,
             moodIndex, trackIndex,
             upstreamReqs, upstream, escaped, proxyResponse, fetched, clientResult, toolResult>>

playerVars == <<mounted, state, rendered, intervalRef, timers, timerSeq, effectDeps,
                effectsPending, audios, attempts, unhandled, last, seekMark, completed>>

\* state of one MusicCardWithLoadingState instance (the loading wrapper)
VARIABLES
  wMounted,        \* the wrapper is mounted
  props,           \* which of title, artist, preview the parent passes (truthy)
  generationStage, \* thread.generationStage as useTambo reports it
  wState,          \* showSkeleton, hasBeenInitialized after every update so far
  wRendered,       \* the committed render: state cells, props and stage it saw
  wDeps,           \* dependencies of the last run of the two effects
  wEffectsPending, \* a commit whose effects have not run yet
  timeouts         \* the reveal timers that are armed, by the effect that armed them

wrapVars == <<wMounted, props, generationStage, wState, wRendered, wDeps, wEffectsPending,
              timeouts>>

vars == <<reqVars, playerVars, wrapVars>>

\* useState(30): the duration assumed until the resource reports its own
AudioDurationDefault == 30

\* the useState initial values of MusicCardCore
InitialState ==
  [isPlaying |-> FALSE, audio |-> 0, currentTime |-> 0,
   audioDuration |-> AudioDurationDefault, isLoading |-> FALSE]

\* the props MusicCardWithLoadingState tests, and the stages of a thread
RequiredProps == {"title", "artist", "preview"}
StreamingStages ==
  {"STREAMING_RESPONSE", "HYDRATING_COMPONENT", "CHOOSING_COMPONENT", "FETCHING_CONTEXT"}
GenerationStages == StreamingStages \cup {"IDLE", "COMPLETE"}

\* the first render of the wrapper: useState(true), useState(false); the
\* effects of the mount have not run yet
WrapperInit ==
  /\ wMounted = TRUE
  /\ props = {}
  /\ generationStage = "IDLE"
  /\ wState = [showSkeleton |-> TRUE, hasBeenInitialized |-> FALSE]
  /\ wRendered = [showSkeleton |-> TRUE, hasBeenInitialized |-> FALSE,
                  props |-> {}, generationStage |-> "IDLE"]
  /\ wDeps = <<>>
  /\ wEffectsPending = TRUE
  /\ timeouts = {}

PlayerInit ==
  /\ mounted = TRUE
  /\ state = InitialState
  /\ rendered = InitialState
  /\ intervalRef = 0
  /\ timers = {}
  /\ timerSeq = 0
  /\ effectDeps = <<FALSE, 0>>
  /\ effectsPending = FALSE
  /\ audios = <<>>
  /\ attempts = <<>>
  /\ unhandled = FALSE
  /\ last = [op |-> "mount", arg |-> 0]
  /\ seekMark = [t |-> -1, clean |-> FALSE]
  /\ completed = FALSE

NoUrl == [path |-> "", search |-> <<>>]
Pending == [t |-> "pending", v |-> Null, msg |-> <<>>]

Init ==
  /\ pc = "idle"
  /\ op = "none"
  /\ origin = "none"
  /\ args = Undefined
  /\ proxyReqs = <<>>
  /\ request = NoUrl
  /\ routeCalls = 0
  /\ query = Null
  /\ randomQuery = Undefined
  /\ moodIndex = -1
  /\ trackIndex = -1
  /\ upstreamReqs = <<>>
  /\ upstream = NoResponse
  /\ escaped = FALSE
  /\ proxyResponse = NoResponse
  /\ fetched = NoResponse
  /\ clientResult = Pending
  /\ toolResult = Pending
  /\ PlayerInit
  /\ WrapperInit

proxyVars == <<routeCalls, query, randomQuery, moodIndex, trackIndex, upstreamReqs, upstream, escaped, proxyResponse>>

\* The agent calls the searchMusic tool: the tool runs to its first await,
\* which is the fetch inside the client's searchMusic (or it throws first).
ToolSearchMusic(q) ==
  /\ pc = "idle"
  /\ op' = "search"
  /\ origin' = "tool"
  /\ args' = q
  /\ LET tool == SearchToolStart(q)
     IN  IF ~tool.call
         THEN /\ toolResult' = tool.done
              /\ pc' = "done"
              /\ UNCHANGED <<proxyReqs, request, clientResult>>
         ELSE LET client == searchMusicStart(q.v)
              IN  IF ~client.fetch
                  THEN /\ clientResult' = client.done
                       /\ toolResult' = SearchToolResume(q, client.done)
                       /\ pc' = "done"
                       /\ UNCHANGED <<proxyReqs, request>>
                  ELSE /\ proxyReqs' = Append(proxyReqs, client.url)
                       /\ request' = client.url
                       /\ pc' = "toProxy"
                       /\ UNCHANGED <<clientResult, toolResult>>
  /\ UNCHANGED <<proxyVars, fetched>>
  /\ UNCHANGED <<playerVars, wrapVars>>

\* The agent calls the getRandomMusic tool.
ToolGetRandomMusic ==
  /\ pc = "idle"
  /\ op' = "random"
  /\ origin' = "tool"
  /\ proxyReqs' = Append(proxyReqs, getRandomSongStart.url)
  /\ request' = getRandomSongStart.url
  /\ pc' = "toProxy"
  /\ UNCHANGED <<args, proxyVars, fetched, clientResult, toolResult>>
  /\ UNCHANGED <<playerVars, wrapVars>>

\* Some HTTP client requests a route itself.
DirectRequest(url) ==
  /\ pc = "idle"
  /\ op' = IF url.path = SearchPath THEN "search" ELSE "random"
  /\ origin' = "direct"
  /\ request' = url
  /\ pc' = "toProxy"
  /\ UNCHANGED <<args, proxyReqs, proxyVars, fetched, clientResult, toolResult>>
  /\ UNCHANGED <<playerVars, wrapVars>>

\* variant of the fetch client that sends its request once more when the
\* fetch fails
FetchFailsRetries ==
  /\ origin = "tool"
  /\ pc \in {"toProxy", "responded"}
  /\ IF Len(proxyReqs) < 2
     THEN /\ proxyReqs' = Append(proxyReqs, request)
          /\ pc' = "toProxy"
          /\ UNCHANGED fetched
     ELSE /\ fetched' = Rejected(<<"Failed to fetch">>)
          /\ pc' = "fetched"
          /\ UNCHANGED proxyReqs
  /\ UNCHANGED <<op, origin, args, request, proxyVars, clientResult, toolResult>>
  /\ UNCHANGED <<playerVars, wrapVars>>

\* The client's fetch rejects: the request or the response is lost.
FetchFails ==
  /\ origin = "tool"
  /\ pc \in {"toProxy", "responded"}
  /\ fetched' = Rejected(<<"Failed to fetch">>)
  /\ pc' = "fetched"
  /\ UNCHANGED <<op, origin, args, proxyReqs, request, proxyVars, clientResult, toolResult>>
  /\ UNCHANGED <<playerVars, wrapVars>>

\* The client's fetch resolves with the response of the route.
FetchResolves ==
  /\ origin = "tool"
  /\ pc = "responded"
  /\ fetched' = proxyResponse
  /\ pc' = "fetched"
  /\ UNCHANGED <<op, origin, args, proxyReqs, request, proxyVars, clientResult, toolResult>>
  /\ UNCHANGED <<playerVars, wrapVars>>

AfterRoute == IF origin = "direct" THEN "done" ELSE "responded"

\* GET of the search route, up to its `await fetch`.
SearchGET ==
  /\ pc = "toProxy"
  /\ op = "search"
  /\ LET h == SearchGETStart(request)
     IN  /\ query' = h.query
         /\ routeCalls' = routeCalls + 1
         /\ IF h.fetch
            THEN /\ upstreamReqs' = Append(upstreamReqs, h.url)
                 /\ pc' = "atUpstream"
                 /\ UNCHANGED <<proxyResponse, escaped>>
            ELSE /\ proxyResponse' = RouteResponse(SearchGETCatch(h.done))
                 /\ escaped' = (SearchGETCatch(h.done).t = "throw")
                 /\ pc' = AfterRoute
                 /\ UNCHANGED upstreamReqs
  /\ UNCHANGED <<op, origin, args, proxyReqs, request, randomQuery, moodIndex, trackIndex,
                 upstream, fetched, clientResult, toolResult>>
  /\ UNCHANGED <<playerVars, wrapVars>>

\* GET of the random route, up to its `await fetch`; r is Math.random().
RandomGET(r) ==
  /\ pc = "toProxy"
  /\ op = "random"
  /\ LET h == RandomGETStart(r)
     IN  /\ randomQuery' = h.randomQuery
         /\ moodIndex' = h.index
         /\ routeCalls' = routeCalls + 1
         /\ upstreamReqs' = Append(upstreamReqs, h.url)
         /\ pc' = "atUpstream"
  /\ UNCHANGED <<op, origin, args, proxyReqs, request, query, trackIndex, upstream,
                 escaped, proxyResponse, fetched, clientResult, toolResult>>
  /\ UNCHANGED <<playerVars, wrapVars>>

\* The request to Deezer settles.
DeezerAnswers(o) ==
  /\ pc = "atUpstream"
  /\ upstream' = o
  /\ pc' = "answered"
  /\ UNCHANGED <<op, origin, args, proxyReqs, request, routeCalls, query, randomQuery,
                 moodIndex, trackIndex, upstreamReqs, escaped, proxyResponse, fetched, clientResult, toolResult>>
  /\ UNCHANGED <<playerVars, wrapVars>>

\* The search route resumes after its fetch and answers.
SearchGETAfterFetch ==
  /\ pc = "answered"
  /\ op = "search"
  /\ proxyResponse' = RouteResponse(SearchGETCatch(SearchGETResume(upstream)))
  /\ escaped' = (SearchGETCatch(SearchGETResume(upstream)).t = "throw")
  /\ pc' = AfterRoute
  /\ UNCHANGED <<op, origin, args, proxyReqs, request, routeCalls, query, randomQuery,
                 moodIndex, trackIndex, upstreamReqs, upstream, fetched, clientResult,
                 toolResult>>
  /\ UNCHANGED <<playerVars, wrapVars>>

\* The random route resumes after its fetch and answers; r is Math.random().
RandomGETAfterFetch(r) ==
  /\ pc = "answered"
  /\ op = "random"
  /\ proxyResponse' = RouteResponse(RandomGETCatch(RandomGETResume(upstream, r)))
  /\ escaped' = (RandomGETCatch(RandomGETResume(upstream, r)).t = "throw")
  /\ trackIndex' = RandomTrackIndex(upstream, r)
  /\ pc' = AfterRoute
  /\ UNCHANGED <<op, origin, args, proxyReqs, request, routeCalls, query, randomQuery,
                 moodIndex, upstreamReqs, upstream, fetched, clientResult, toolResult>>
  /\ UNCHANGED <<playerVars, wrapVars>>

\* The client function resumes after its fetch and settles.
ClientAfterFetch ==
  /\ pc = "fetched"
  /\ clientResult' = IF op = "search" THEN searchMusicResume(fetched)
                     ELSE getRandomSongResume(fetched)
  /\ pc' = "clientDone"
  /\ UNCHANGED <<op, origin, args, proxyReqs, request, proxyVars, fetched, toolResult>>
  /\ UNCHANGED <<playerVars, wrapVars>>

\* The tool resumes after the client call and settles.
ToolAfterCall ==
  /\ pc = "clientDone"
  /\ toolResult' = IF op = "search" THEN SearchToolResume(args, clientResult)
                   ELSE RandomToolResume(clientResult)
  /\ pc' = "done"
  /\ UNCHANGED <<op, origin, args, proxyReqs, request, proxyVars, fetched, clientResult>>
  /\ UNCHANGED <<playerVars, wrapVars>>

DirectUrls ==
  {[path |-> SearchPath, search |-> s] : s \in RawSearches}
    \cup {[path |-> RandomPath, search |-> <<>>]}

Next ==
  \/ \E q \in ToolQueries : ToolSearchMusic(q)
  \/ ToolGetRandomMusic
  \/ \E url \in DirectUrls : DirectRequest(url)
  \/ FetchFails
  \/ FetchResolves
  \/ SearchGET
  \/ \E r \in Randoms : RandomGET(r)
  \/ \E o \in UpstreamOutcomes : DeezerAnswers(o)
  \/ SearchGETAfterFetch
  \/ \E r \in Randoms : RandomGETAfterFetch(r)
  \/ ClientAfterFetch
  \/ ToolAfterCall

Spec == Init /\ [][Next]_vars

\* ----------------------------------------------------------------- claims
\* a route handler has produced its response
RouteSettled == routeCalls > 0 /\ proxyResponse.t = "response"

\* the upstream answered with a success status and a JSON body
UpstreamSucceeded == upstream.t = "response" /\ Ok(upstream) /\ upstream.json

\* C1: for every non-empty query q, one invocation of the search route
\* issues exactly one upstream request, which carries q, and when the
\* upstream answers with a success status the route responds with the
\* upstream JSON payload unmodified.
C1_SearchForwardsOnceAndVerbatim ==
  (op = "search" /\ routeCalls > 0 /\ Truthy(query)) =>
    /\ Len(upstreamReqs) = 1
    /\ SearchParamsGet(upstreamReqs[1].search, <<"q">>) = query
    /\ SearchParamsGet(upstreamReqs[1].search, <<"limit">>) = Str(<<"10">>)
    /\ (RouteSettled /\ UpstreamSucceeded) =>
         /\ Ok(proxyResponse)
         /\ proxyResponse.json
         /\ proxyResponse.body = upstream.body

C1_Witness ==
  /\ op = "search"
  /\ query = Str(<<"a", "&">>)
  /\ Len(upstreamReqs) = 1
  /\ RouteSettled /\ UpstreamSucceeded
  /\ Truthy(upstream.body.error)
  /\ Truthy(upstream.body.data) /\ Len(upstream.body.data.v) = 2
  /\ proxyResponse.body = upstream.body

\* C2: when the query parameter is absent or empty, the search route issues
\* no upstream request and responds with status 400 and an error payload.
C2_EmptyQueryRejected ==
  (op = "search" /\ routeCalls > 0 /\ query \in {Null, Str(<<>>)}) =>
    /\ upstreamReqs = <<>>
    /\ upstream = NoResponse
    /\ proxyResponse.t = "response"
    /\ proxyResponse.status = 400
    /\ proxyResponse.json
    /\ Truthy(proxyResponse.body.error)

C2_Witness ==
  /\ op = "search"
  /\ routeCalls = 1
  /\ request.search = <<"q", "=">>
  /\ query = Str(<<>>)
  /\ proxyResponse.status = 400
  /\ upstreamReqs = <<>>

\* the fixed message of each route's catch block
FixedMessage == IF op = "search" THEN <<"Failed to search for music">>
                ELSE <<"Failed to get random music">>

\* C3: in both routes, whenever the upstream call answers with a
\* non-success status or fails in transport, the handler responds with
\* status 500 and its own fixed message, the same whatever the upstream
\* error was, and no exception escapes the handler.
C3_UpstreamFailureIsGeneric500 ==
  (RouteSettled /\ (upstream.t = "reject" \/ (upstream.t = "response" /\ ~Ok(upstream)))) =>
    /\ ~escaped
    /\ proxyResponse = JsonResponse(500, ErrorPayload(FixedMessage))

C3_Witness ==
  /\ op = "random"
  /\ RouteSettled
  /\ upstream.t = "response" /\ upstream.status = 404
  /\ Truthy(upstream.body.error)
  /\ proxyResponse.status = 500

\* C4: in every invocation of the random route the mood phrase sent
\* upstream is one of the ten MOOD_QUERIES entries, and when the random
\* source selects index 0 the phrase is "happy upbeat songs".
C4_MoodPhraseFromFixedSet ==
  (op = "random" /\ routeCalls > 0) =>
    /\ Len(MOOD_QUERIES) = 10
    /\ \E i \in 1..10 : randomQuery = MOOD_QUERIES[i]
    /\ Len(upstreamReqs) = 1
    /\ SearchParamsGet(upstreamReqs[1].search, <<"q">>) = randomQuery
    /\ moodIndex = 0 => randomQuery = Str(<<"happy", " ", "upbeat", " ", "songs">>)

C4_Witness ==
  /\ op = "random"
  /\ routeCalls = 1
  /\ moodIndex = 0
  /\ SearchParamsGet(upstreamReqs[1].search, <<"q">>) = Str(<<"happy", " ", "upbeat", " ", "songs">>)

\* C5: for an upstream result list of length N >= 1 and a selected index k
\* with 0 <= k < N, the random route responds with a list of exactly one
\* element, the upstream list's element at index k.
C5_RandomReturnsSelectedTrack ==
  (/\ op = "random" /\ RouteSettled /\ UpstreamSucceeded
   /\ upstream.body.data.t = "array" /\ Len(upstream.body.data.v) >= 1) =>
    /\ trackIndex >= 0 /\ trackIndex < Len(upstream.body.data.v)
    /\ Ok(proxyResponse)
    /\ proxyResponse.body.data.t = "array"
    /\ Len(proxyResponse.body.data.v) = 1
    /\ proxyResponse.body.data.v[1] = upstream.body.data.v[trackIndex + 1]

C5_Witness ==
  /\ op = "random" /\ RouteSettled /\ UpstreamSucceeded
  /\ upstream.body.data.t = "array" /\ Len(upstream.body.data.v) = 2
  /\ upstream.body.data.v[1] # upstream.body.data.v[2]
  /\ trackIndex = 1
  /\ proxyResponse.body.data.v = <<upstream.body.data.v[2]>>

\* C6: when the upstream answers successfully with a result list of length
\* 0, the random route responds with a success status and an empty data
\* list, never with an error payload or a 500 status.
C6_EmptyListIsNotAnError ==
  (/\ op = "random" /\ RouteSettled /\ UpstreamSucceeded
   /\ upstream.body.data = Arr(<<>>)) =>
    /\ ~escaped
    /\ proxyResponse = JsonResponse(200, Payload(Arr(<<>>), Undefined))

C6_Witness ==
  /\ op = "random" /\ RouteSettled /\ UpstreamSucceeded
  /\ upstream.body.data = Arr(<<>>)
  /\ proxyResponse.status = 200
  /\ proxyResponse.body.data = Arr(<<>>)

\* the client function has settled after a response of the proxy arrived
ClientSettledOnResponse ==
  /\ origin = "tool"
  /\ pc \in {"clientDone", "done"}
  /\ fetched.t = "response"

\* message m contains the string q
Names(m, q) ==
  \E i \in 1..(Len(m) - Len(q) + 1) : SubSeq(m, i, i + Len(q) - 1) = q

\* the proxy answered the search with a success status, no error and an
\* empty result list
EmptySearchResult ==
  /\ op = "search"
  /\ ClientSettledOnResponse
  /\ Ok(fetched) /\ fetched.json
  /\ ~Truthy(fetched.body.error)
  /\ fetched.body.data = Arr(<<>>)

\* C7 as stated: on a success response with an empty result list the fetch
\* client's searchMusic raises an error whose message names q.
C7_Original_ClientRaisesNamingQuery ==
  EmptySearchResult =>
    /\ clientResult.t = "throw"
    /\ Names(clientResult.msg, args.v)

\* C7 amended: on a success response with an empty result list the fetch
\* client's searchMusic returns the empty list without raising; the error
\* whose message names q is raised by the searchMusic agent tool.
C7_ClientReturnsEmptyToolRaisesNamingQuery ==
  EmptySearchResult =>
    /\ clientResult = Return(Arr(<<>>))
    /\ pc = "done" =>
         /\ toolResult.t = "throw"
         /\ toolResult.msg = <<"No music found for \"">> \o args.v \o <<"\"">>
         /\ Names(toolResult.msg, args.v)

C7_Witness ==
  /\ EmptySearchResult
  /\ pc = "done"
  /\ args = Str(<<"a", "+">>)
  /\ clientResult.t = "return"
  /\ toolResult.t = "throw"
  /\ Names(toolResult.msg, <<"a", "+">>)

\* C8 as stated: on a non-success status or an error field in the proxy
\* response, searchMusic raises an error whose message is the error string
\* of the response payload, in both cases.
C8_Original_RaisesServerMessage ==
  (/\ op = "search" /\ ClientSettledOnResponse /\ fetched.json
   /\ fetched.body.error.t = "string" /\ fetched.body.error.v # <<>>) =>
    /\ clientResult.t = "throw"
    /\ clientResult.msg = fetched.body.error.v

\* C8 amended: on a non-success status searchMusic raises an error whose
\* message is "API error: <status>", not the payload's error string; on a
\* success status with a non-empty error string in the payload it raises
\* an error whose message is that string.
C8_RaisesStatusOrServerMessage ==
  (op = "search" /\ ClientSettledOnResponse) =>
    /\ ~Ok(fetched) =>
         /\ clientResult.t = "throw"
         /\ clientResult.msg = <<"API error: ", ToString(fetched.status)>>
         /\ fetched.json => clientResult.msg # ToStringJS(fetched.body.error)
    /\ (/\ Ok(fetched) /\ fetched.json
        /\ fetched.body.error.t = "string" /\ fetched.body.error.v # <<>>) =>
         /\ clientResult.t = "throw"
         /\ clientResult.msg = fetched.body.error.v

C8_Witness ==
  /\ op = "search" /\ ClientSettledOnResponse
  /\ fetched.status = 500
  /\ fetched.body.error = Str(<<"Failed to search for music">>)
  /\ clientResult = Throw(<<"API error: ", "500">>)

BuiltFrom(card, track) ==
  /\ card.id = track.id
  /\ card.title = track.title
  /\ card.artist = track.artist.name
  /\ card.album = track.album.title
  /\ card.duration = track.duration
  /\ card.preview = track.preview
  /\ card.link = track.link
  /\ card.artistImage = track.artist.picture_medium
  /\ card.albumCover = track.album.cover_medium
  /\ card.rank = track.rank

C10_ToolsRaiseWithoutTrack ==
  (origin = "tool" /\ pc = "done") =>
    /\ toolResult.t \in {"return", "throw"}
    /\ (op = "search" /\ args \in {Undefined, Str(<<>>)}) =>
         /\ toolResult.t = "throw"
         /\ proxyReqs = <<>>
         /\ clientResult = Pending
    /\ (fetched.t = "reject" \/ clientResult.t = "throw") => toolResult.t = "throw"
    /\ (fetched.t = "response" /\ ~Ok(fetched)) => toolResult.t = "throw"
    /\ (op = "search" /\ clientResult.t = "return" /\ Len(clientResult.v.v) = 0) =>
         toolResult.t = "throw"
    /\ (op = "random" /\ clientResult = Return(Null)) =>
         toolResult = Throw(<<"No random music found">>)
    /\ toolResult.t = "return" =>
         /\ clientResult.t = "return"
         /\ op = "search" =>
              /\ Len(clientResult.v.v) >= 1
              /\ BuiltFrom(toolResult.v, clientResult.v.v[1])
         /\ op = "random" =>
              /\ clientResult.v \in Tracks
              /\ BuiltFrom(toolResult.v, clientResult.v)

C10_Witness ==
  /\ origin = "tool" /\ pc = "done" /\ op = "search"
  /\ toolResult.t = "return"
  /\ Len(clientResult.v.v) = 2
  /\ clientResult.v.v[1] # clientResult.v.v[2]
  /\ toolResult.v.id = clientResult.v.v[1].id

\* =========================================================================
\* The Preview Player: MusicCardCore of components/music/MusicCard.
\* React state is kept twice: `state` holds the value of every useState cell
\* after all updates scheduled so far, `rendered` the values of the committed
\* render, which are what the event handlers' closures and the DOM
\* attributes see.  Updates scheduled in a click or change handler are
\* rendered, and their effects run, before the handler's task ends; updates
\* scheduled by audio events, timers and promise continuations are rendered
\* by a later task (Render), and the effects of that commit run later still
\* (FlushEffects).  Time is counted in whole seconds.
\* =========================================================================

\* bounds of the player model
MaxPlays == 3
MaxClip == 2

\* clip lengths a resource can report; 0 stands for a falsy report (0, NaN)
ClipDurations == {0, MaxClip}

Min(a, b) == IF a < b THEN a ELSE b
Max(a, b) == IF a > b THEN a ELSE b

\* new Audio(preview)
NewAudio == [load |-> "loading", duration |-> 0, paused |-> TRUE, currentTime |-> 0]

\* the element is at the end of its clip
AtEnd(el) == el.load = "ready" /\ el.currentTime = el.duration

\* el.play() when it is accepted: a clip at its end restarts from 0
PlayElement(el) ==
  IF el.load = "error" THEN el
  ELSE [el EXCEPT !.paused = FALSE, !.currentTime = IF AtEnd(el) THEN 0 ELSE @]

\* el.pause(); the click that calls it also rejects the pending play()s
PauseElement(el) == [el EXCEPT !.paused = TRUE]

\* el.currentTime = t: a seek, limited to the clip once its length is known
SetPosition(el, t) ==
  [el EXCEPT !.currentTime = IF el.load = "ready" THEN Min(t, el.duration) ELSE t]

\* variant of the loadedmetadata listener without the `|| 30`
DurationAsReported(d) == d

\* `a.duration || 30`
DurationOrDefault(d) == IF d = 0 THEN AudioDurationDefault ELSE d

\* variant of pct without Math.min / Math.max
PctUnclamped(currentTime, audioDuration) == (currentTime * 100) \div audioDuration

\* pct, rounded down to a whole percent
Pct(currentTime, audioDuration) ==
  Min(100, Max(0, (currentTime * 100) \div audioDuration))

\* the dependency array of the progress effect
Deps(s) == <<s.isPlaying, s.audio>>

clearInterval(tms, id) == {tm \in tms : tm.id # id}

\* variant of the progress effect whose else branch leaves the interval running
ProgressEffectNeverStops(e, s) ==
  IF Deps(s) = e.deps THEN e
  ELSE IF s.isPlaying /\ s.audio # 0
       THEN [ref |-> e.seq + 1,
             timers |-> e.timers \cup {[id |-> e.seq + 1, audio |-> s.audio,
                                        currentTime |-> s.currentTime]},
             seq |-> e.seq + 1,
             deps |-> Deps(s)]
       ELSE [e EXCEPT !.deps = Deps(s)]

\* One run of the progress effect for a commit with state s, preceded by
\* the cleanup of its previous run; nothing happens when the dependencies
\* did not change.  e holds intervalRef.current, the active intervals, the
\* ids handed out and the dependencies of the previous run.
ProgressEffect(e, s) ==
  IF Deps(s) = e.deps THEN e
  ELSE LET cleaned == IF e.ref # 0 THEN clearInterval(e.timers, e.ref) ELSE e.timers
       IN  IF s.isPlaying /\ s.audio # 0
           THEN [ref |-> e.seq + 1,
                 timers |-> cleaned \cup {[id |-> e.seq + 1, audio |-> s.audio,
                                           currentTime |-> s.currentTime]},
                 seq |-> e.seq + 1,
                 deps |-> Deps(s)]
           ELSE IF e.ref # 0
           THEN [ref |-> 0, timers |-> clearInterval(cleaned, e.ref), seq |-> e.seq,
                 deps |-> Deps(s)]
           ELSE [ref |-> e.ref, timers |-> cleaned, seq |-> e.seq, deps |-> Deps(s)]

\* variant of the unmount without the effect cleanups
UnmountNoCleanup(e) == e

\* cleanup of both effects at unmount
UnmountCleanup(e) ==
  IF e.ref # 0 THEN [e EXCEPT !.timers = clearInterval(e.timers, e.ref)] ELSE e

Effects == [ref |-> intervalRef, timers |-> timers, seq |-> timerSeq, deps |-> effectDeps]

\* a setState call does nothing once the component is unmounted
Upd(s) == IF mounted THEN s ELSE state

\* variant of the interval callback that delivers the position captured
\* when the interval was created
TickValueCaptured(tm, els) == tm.currentTime

\* the value an interval callback delivers: `audio.currentTime`, read when
\* the callback runs
TickValue(tm, els) == els[tm.audio].currentTime

\* variant of the first test of togglePlay: a resource for every play from rest
NeedsNewAudioWhenIdle(r) == ~r.isPlaying

\* `if (!audio)` of togglePlay
NeedsNewAudio(r) == r.audio = 0

\* variant of togglePlay whose resume branch reports playing in its catch
TogglePlayCatchResumePlays(kind, s) ==
  [state |-> IF kind = "first" THEN [s EXCEPT !.isLoading = FALSE]
             ELSE [s EXCEPT !.isPlaying = TRUE],
   unhandled |-> FALSE]

\* variant of togglePlay without its try/catch: the rejection leaves the handler
TogglePlayNoCatch(kind, s) == [state |-> s, unhandled |-> TRUE]

\* the catch blocks of togglePlay, run when the awaited play() rejects
TogglePlayCatch(kind, s) ==
  [state |-> IF kind = "first" THEN [s EXCEPT !.isLoading = FALSE] ELSE s,
   unhandled |-> FALSE]

\* play() returns a rejected promise and leaves the element alone when the
\* host does not allow playback or the element's source has failed
PlayRefused(el, allowed) == ~allowed \/ el.load = "error"

\* the pending play promises of element a: the play() calls it accepted
\* that have not settled
Pending_(a) ==
  {i \in 1..Len(attempts) :
     attempts[i].audio = a /\ attempts[i].outcome = "pending" /\ ~attempts[i].denied}

Settle(a, outcome) ==
  [i \in 1..Len(attempts) |->
     IF i \in Pending_(a) THEN [attempts[i] EXCEPT !.outcome = outcome] ELSE attempts[i]]

\* state after the catch blocks of every pending togglePlay on element a
RECURSIVE AfterCatches(_, _, _)
AfterCatches(a, i, s) ==
  IF i > Len(attempts) THEN s
  ELSE AfterCatches(a, i + 1,
         IF i \in Pending_(a) THEN TogglePlayCatch(attempts[i].kind, s).state ELSE s)

CatchesUnhandled(a) ==
  \E i \in Pending_(a) : TogglePlayCatch(attempts[i].kind, state).unhandled

\* disabled attribute of the play button
PlayDisabled(r) == r.isLoading

\* variant of the seek input that is only disabled without a resource
SeekDisabledWithoutAudio(r) == r.audio = 0

\* disabled attribute of the seek input
SeekDisabled(r) == r.isLoading \/ r.audio = 0

\* values the user picks on the range input, which runs from 0 to max
SeekPoints(max) == {t \in {0, 1, max} : t >= 0 /\ t <= max}

\* s with the cells named in u set to u's values
Apply(s, u) == [f \in DOMAIN s |-> IF f \in DOMAIN u THEN u[f] ELSE s[f]]

\* the updates u made in a click or change handler are rendered before the
\* handler's task ends, on top of the committed render: the updates scheduled
\* outside such handlers, which gave s, stay queued for Render.  The effects of the
\* previous commit that are still pending run first, then those of this one.
CommitNow(s, u) ==
  LET r == Apply(rendered, u)
      e == ProgressEffect(ProgressEffect(Effects, rendered), r)
  IN  /\ state' = Apply(s, u)
      /\ rendered' = r
      /\ intervalRef' = e.ref
      /\ timers' = e.timers
      /\ timerSeq' = e.seq
      /\ effectDeps' = e.deps
      /\ effectsPending' = FALSE

\* onClick of the play button: togglePlay up to its await
TogglePlay(allowed) ==
  /\ mounted
  /\ ~PlayDisabled(rendered)
  /\ IF NeedsNewAudio(rendered)
     THEN /\ Len(attempts) < MaxPlays
          /\ audios' = Append(audios, IF PlayRefused(NewAudio, allowed) THEN NewAudio
                                      ELSE PlayElement(NewAudio))
          /\ attempts' = Append(attempts, [audio |-> Len(audios) + 1, kind |-> "first",
                                           outcome |-> "pending",
                                           denied |-> PlayRefused(NewAudio, allowed)])
          /\ CommitNow(state, [isLoading |-> TRUE, audio |-> Len(audios) + 1])
          /\ last' = [op |-> "create", arg |-> Len(audios) + 1]
          /\ UNCHANGED unhandled
     ELSE IF rendered.isPlaying
     THEN /\ audios' = [audios EXCEPT ![rendered.audio] = PauseElement(@)]
          /\ attempts' = Settle(rendered.audio, "rejected")
          /\ unhandled' = (unhandled \/ CatchesUnhandled(rendered.audio))
          /\ CommitNow(AfterCatches(rendered.audio, 1, state), [isPlaying |-> FALSE])
          /\ last' = [op |-> "pause", arg |-> rendered.audio]
     ELSE /\ Len(attempts) < MaxPlays
          /\ audios' = IF PlayRefused(audios[rendered.audio], allowed) THEN audios
                       ELSE [audios EXCEPT ![rendered.audio] = PlayElement(@)]
          /\ attempts' = Append(attempts, [audio |-> rendered.audio, kind |-> "resume",
                                           outcome |-> "pending",
                                           denied |-> PlayRefused(audios[rendered.audio],
                                                                  allowed)])
          /\ last' = [op |-> "resume", arg |-> rendered.audio]
          /\ UNCHANGED <<state, rendered, intervalRef, timers, timerSeq, effectDeps,
                         effectsPending, unhandled>>
  /\ seekMark' = [seekMark EXCEPT !.clean = FALSE]
  /\ completed' = (completed /\ ~NeedsNewAudio(rendered) /\ rendered.isPlaying)
  /\ UNCHANGED <<mounted, reqVars, wrapVars>>

\* onChange of the range input: handleSeek
HandleSeek(t) ==
  /\ mounted
  /\ ~SeekDisabled(rendered)
  /\ t \in SeekPoints(rendered.audioDuration)
  /\ audios' = IF rendered.audio # 0
               THEN [audios EXCEPT ![rendered.audio] = SetPosition(@, t)]
               ELSE audios
  /\ CommitNow(state, [currentTime |-> t])
  /\ last' = [op |-> "seek", arg |-> t]
  /\ seekMark' = [t |-> t, clean |-> TRUE]
  /\ completed' = FALSE
  /\ UNCHANGED <<mounted, attempts, unhandled, reqVars, wrapVars>>

\* an interval fires: setCurrentTime(audio.currentTime)
TimerTick(tm) ==
  /\ tm \in timers
  /\ state' = Upd([state EXCEPT !.currentTime = TickValue(tm, audios)])
  /\ last' = [op |-> "tick", arg |-> tm.id]
  /\ UNCHANGED <<mounted, rendered, intervalRef, timers, timerSeq, effectDeps, effectsPending,
                 audios, attempts, unhandled, seekMark, completed, reqVars, wrapVars>>

\* React renders the updates scheduled outside its own event handlers
Render ==
  /\ mounted
  /\ state # rendered
  /\ LET e == ProgressEffect(Effects, rendered)
     IN  /\ intervalRef' = e.ref
         /\ timers' = e.timers
         /\ timerSeq' = e.seq
         /\ effectDeps' = e.deps
         /\ effectsPending' = (Deps(state) # e.deps)
  /\ rendered' = state
  /\ last' = [op |-> "render", arg |-> 0]
  /\ UNCHANGED <<mounted, state, audios, attempts, unhandled, seekMark, completed, reqVars, wrapVars>>

\* the passive effects of the last commit run
FlushEffects ==
  /\ mounted
  /\ effectsPending
  /\ LET e == ProgressEffect(Effects, rendered)
     IN  /\ intervalRef' = e.ref
         /\ timers' = e.timers
         /\ timerSeq' = e.seq
         /\ effectDeps' = e.deps
  /\ effectsPending' = FALSE
  /\ last' = [op |-> "effects", arg |-> 0]
  /\ UNCHANGED <<mounted, state, rendered, audios, attempts, unhandled, seekMark, completed, reqVars, wrapVars>>

\* variant of the loadedmetadata listener without setIsLoading(false)
AudioMetadataKeepsLoading(a, d) ==
  /\ a \in 1..Len(audios)
  /\ audios[a].load = "loading"
  /\ audios' = [audios EXCEPT ![a] = [@ EXCEPT !.load = "ready", !.duration = d,
                                                !.currentTime = Min(@, d)]]
  /\ state' = Upd([state EXCEPT !.audioDuration = DurationOrDefault(d)])
  /\ last' = [op |-> "loadedmetadata", arg |-> a]
  /\ seekMark' = [seekMark EXCEPT !.clean = FALSE]
  /\ UNCHANGED completed
  /\ UNCHANGED <<mounted, rendered, intervalRef, timers, timerSeq, effectDeps, effectsPending,
                 attempts, unhandled, reqVars, wrapVars>>

\* the element has its metadata: "loadedmetadata" listener
AudioMetadata(a, d) ==
  /\ a \in 1..Len(audios)
  /\ audios[a].load = "loading"
  /\ audios' = [audios EXCEPT ![a] = [@ EXCEPT !.load = "ready", !.duration = d,
                                                !.currentTime = Min(@, d)]]
  /\ state' = Upd([state EXCEPT !.audioDuration = DurationOrDefault(d), !.isLoading = FALSE])
  /\ last' = [op |-> "loadedmetadata", arg |-> a]
  /\ seekMark' = [seekMark EXCEPT !.clean = FALSE]
  /\ UNCHANGED completed
  /\ UNCHANGED <<mounted, rendered, intervalRef, timers, timerSeq, effectDeps, effectsPending,
                 attempts, unhandled, reqVars, wrapVars>>

\* the element fails: "error" listener; when its source cannot be loaded
\* every pending play() rejects as well
AudioError(a) ==
  /\ a \in 1..Len(audios)
  /\ audios[a].load \in {"loading", "ready"}
  /\ audios' = [audios EXCEPT ![a] = [@ EXCEPT !.load = "error", !.paused = TRUE]]
  /\ IF audios[a].load = "loading"
     THEN /\ attempts' = Settle(a, "rejected")
          /\ unhandled' = (unhandled \/ CatchesUnhandled(a))
          /\ state' = Upd(AfterCatches(a, 1, [state EXCEPT !.isLoading = FALSE]))
     ELSE /\ state' = Upd([state EXCEPT !.isLoading = FALSE])
          /\ UNCHANGED <<attempts, unhandled>>
  /\ last' = [op |-> "error", arg |-> a]
  /\ UNCHANGED <<seekMark, completed>>
  /\ UNCHANGED <<mounted, rendered, intervalRef, timers, timerSeq, effectDeps, effectsPending,
                 reqVars, wrapVars>>

\* playback starts: every pending play() of the element resolves and
\* togglePlay resumes with setIsPlaying(true)
AudioStartsPlaying(a) ==
  /\ a \in 1..Len(audios)
  /\ audios[a].load = "ready"
  /\ ~audios[a].paused
  /\ Pending_(a) # {}
  /\ attempts' = Settle(a, "resolved")
  /\ state' = Upd([state EXCEPT !.isPlaying = TRUE])
  /\ last' = [op |-> "playing", arg |-> a]
  /\ UNCHANGED <<mounted, rendered, intervalRef, timers, timerSeq, effectDeps, effectsPending,
                 audios, unhandled, seekMark, completed, reqVars, wrapVars>>

\* the rejected promise of a refused play() reaches the catch of togglePlay
PlayDenied(i) ==
  /\ i \in 1..Len(attempts)
  /\ attempts[i].denied
  /\ attempts[i].outcome = "pending"
  /\ attempts' = [attempts EXCEPT ![i].outcome = "rejected"]
  /\ unhandled' = (unhandled \/ TogglePlayCatch(attempts[i].kind, state).unhandled)
  /\ state' = Upd(TogglePlayCatch(attempts[i].kind, state).state)
  /\ last' = [op |-> "denied", arg |-> attempts[i].audio]
  /\ UNCHANGED <<mounted, rendered, intervalRef, timers, timerSeq, effectDeps, effectsPending,
                 audios, seekMark, completed, reqVars, wrapVars>>

\* the element is playing
Playing(el) == el.load = "ready" /\ ~el.paused

\* one second of playback that does not reach the end of the clip
AudioAdvance(a) ==
  /\ a \in 1..Len(audios)
  /\ Playing(audios[a])
  /\ Pending_(a) = {}
  /\ audios[a].currentTime + 1 < audios[a].duration
  /\ audios' = [audios EXCEPT ![a] = [@ EXCEPT !.currentTime = @ + 1]]
  /\ last' = [op |-> "advance", arg |-> a]
  /\ seekMark' = [seekMark EXCEPT !.clean = FALSE]
  /\ UNCHANGED completed
  /\ UNCHANGED <<mounted, state, rendered, intervalRef, timers, timerSeq, effectDeps,
                 effectsPending, attempts, unhandled, reqVars, wrapVars>>

\* playback reaches the end of the clip (by its last second, or because the
\* position was put there): the browser pauses the element and fires "ended" in
\* one task, so the "ended" listener runs in the same step
AudioEnded(a) ==
  /\ a \in 1..Len(audios)
  /\ Playing(audios[a])
  /\ Pending_(a) = {}
  /\ audios[a].currentTime + 1 >= audios[a].duration
  /\ audios' = [audios EXCEPT ![a] = PauseElement([@ EXCEPT !.currentTime = audios[a].duration])]
  /\ state' = Upd([state EXCEPT !.isPlaying = FALSE, !.currentTime = 0])
  /\ last' = [op |-> "ended", arg |-> a]
  /\ seekMark' = [seekMark EXCEPT !.clean = FALSE]
  /\ completed' = TRUE
  /\ UNCHANGED <<mounted, rendered, intervalRef, timers, timerSeq, effectDeps, effectsPending,
                 attempts, unhandled, reqVars, wrapVars>>

\* the instance is unmounted: pending effects run, then every cleanup
Unmount ==
  /\ mounted
  /\ LET e == UnmountCleanup(ProgressEffect(Effects, rendered))
     IN  /\ intervalRef' = e.ref
         /\ timers' = e.timers
         /\ timerSeq' = e.seq
         /\ effectDeps' = e.deps
  /\ mounted' = FALSE
  /\ effectsPending' = FALSE
  /\ last' = [op |-> "unmount", arg |-> 0]
  /\ UNCHANGED <<state, rendered, audios, attempts, unhandled, seekMark, completed, reqVars, wrapVars>>

NextPlayer ==
  \/ \E allowed \in BOOLEAN : TogglePlay(allowed)
  \/ \E t \in 0..AudioDurationDefault : HandleSeek(t)
  \/ \E tm \in timers : TimerTick(tm)
  \/ Render
  \/ FlushEffects
  \/ \E a \in 1..Len(audios), d \in ClipDurations : AudioMetadata(a, d)
  \/ \E a \in 1..Len(audios) : AudioError(a)
  \/ \E a \in 1..Len(audios) : AudioStartsPlaying(a)
  \/ \E i \in 1..Len(attempts) : PlayDenied(i)
  \/ \E a \in 1..Len(audios) : AudioAdvance(a)
  \/ \E a \in 1..Len(audios) : AudioEnded(a)
  \/ Unmount

SpecPlayer == Init /\ [][NextPlayer]_vars

\* =========================================================================
\* The loading wrapper: MusicCardWithLoadingState, exported as MusicCard.
\* Its props and the thread's stage change outside the wrapper; every change
\* and every update of its state cells is rendered by WrapperRender, and the
\* effects of a commit run afterwards (WrapperEffects).
\* =========================================================================

\* isStreaming
IsStreaming(g) == g \in StreamingStages

\* isComponentComplete
IsComponentComplete(p) == RequiredProps \subseteq p

\* the guard of MusicCardCore: `return null`
MusicCardCoreOutput(p) == IF ~IsComponentComplete(p) THEN "nothing" ELSE "card"

\* variant of the wrapper's last test that leaves missing props to MusicCardCore
WrapperOutputCoreDecides(r) ==
  IF r.showSkeleton THEN "skeleton" ELSE MusicCardCoreOutput(r.props)

\* what a render r of the wrapper returns
WrapperOutput(r) ==
  IF r.showSkeleton \/ ~IsComponentComplete(r.props)
  THEN "skeleton"
  ELSE MusicCardCoreOutput(r.props)

\* [isComponentComplete, isStreaming, hasBeenInitialized] of a render
WrapperDeps(r) ==
  <<IsComponentComplete(r.props), IsStreaming(r.generationStage), r.hasBeenInitialized>>

\* body of the first effect for render r, on state cells s and timers tms
FirstEffect(r, s, tms) ==
  IF IsComponentComplete(r.props) /\ ~r.hasBeenInitialized
  THEN IF IsStreaming(r.generationStage)
       THEN [state |-> [s EXCEPT !.showSkeleton = TRUE], timeouts |-> tms]
       ELSE [state |-> s, timeouts |-> tms \cup {"first"}]
  ELSE IF IsComponentComplete(r.props) /\ r.hasBeenInitialized
  THEN [state |-> [s EXCEPT !.showSkeleton = FALSE], timeouts |-> tms]
  ELSE [state |-> [showSkeleton |-> TRUE, hasBeenInitialized |-> FALSE], timeouts |-> tms]

\* body of the second effect
SecondEffect(r, s, tms) ==
  IF ~IsStreaming(r.generationStage) /\ IsComponentComplete(r.props) /\ ~r.hasBeenInitialized
  THEN [state |-> s, timeouts |-> tms \cup {"second"}]
  ELSE [state |-> s, timeouts |-> tms]

\* the cleanups of the previous run (clearTimeout), then both bodies; nothing
\* when the dependencies did not change
WrapperRunEffects(r, s, tms, deps) ==
  IF WrapperDeps(r) = deps THEN [state |-> s, timeouts |-> tms, deps |-> deps]
  ELSE LET e1 == FirstEffect(r, s, {})
           e2 == SecondEffect(r, e1.state, e1.timeouts)
       IN  [state |-> e2.state, timeouts |-> e2.timeouts, deps |-> WrapperDeps(r)]

\* the parent passes other props
PropsChange(p) ==
  /\ wMounted
  /\ p # props
  /\ props' = p
  /\ UNCHANGED <<wMounted, generationStage, wState, wRendered, wDeps, wEffectsPending,
                 timeouts, reqVars, playerVars>>

\* the thread moves to another generation stage
StageChange(g) ==
  /\ wMounted
  /\ g # generationStage
  /\ generationStage' = g
  /\ UNCHANGED <<wMounted, props, wState, wRendered, wDeps, wEffectsPending,
                 timeouts, reqVars, playerVars>>

\* React renders the wrapper; effects still pending from the previous commit
\* run first
WrapperRender ==
  /\ wMounted
  /\ LET e == WrapperRunEffects(wRendered, wState, timeouts, wDeps)
         r == [showSkeleton |-> e.state.showSkeleton,
               hasBeenInitialized |-> e.state.hasBeenInitialized,
               props |-> props, generationStage |-> generationStage]
     IN  /\ r # wRendered
         /\ wState' = e.state
         /\ timeouts' = e.timeouts
         /\ wDeps' = e.deps
         /\ wRendered' = r
         /\ wEffectsPending' = (WrapperDeps(r) # e.deps)
  /\ UNCHANGED <<wMounted, props, generationStage, reqVars, playerVars>>

\* the effects of the last commit run
WrapperEffects ==
  /\ wMounted
  /\ wEffectsPending
  /\ LET e == WrapperRunEffects(wRendered, wState, timeouts, wDeps)
     IN  /\ wState' = e.state
         /\ timeouts' = e.timeouts
         /\ wDeps' = e.deps
  /\ wEffectsPending' = FALSE
  /\ UNCHANGED <<wMounted, props, generationStage, wRendered, reqVars, playerVars>>

\* a reveal timer fires after its delay
RevealTimeout(tm) ==
  /\ tm \in timeouts
  /\ timeouts' = timeouts \ {tm}
  /\ wState' = IF wMounted
               THEN [showSkeleton |-> FALSE, hasBeenInitialized |-> TRUE]
               ELSE wState
  /\ UNCHANGED <<wMounted, props, generationStage, wRendered, wDeps, wEffectsPending,
                 reqVars, playerVars>>

\* the wrapper is unmounted: pending effects run, then the cleanups
WrapperUnmount ==
  /\ wMounted
  /\ LET e == WrapperRunEffects(wRendered, wState, timeouts, wDeps)
     IN  /\ wState' = e.state
         /\ wDeps' = e.deps
  /\ timeouts' = {}
  /\ wMounted' = FALSE
  /\ wEffectsPending' = FALSE
  /\ UNCHANGED <<props, generationStage, wRendered, reqVars, playerVars>>

NextWrapper ==
  \/ \E p \in SUBSET RequiredProps : PropsChange(p)
  \/ \E g \in GenerationStages : StageChange(g)
  \/ WrapperRender
  \/ WrapperEffects
  \/ \E tm \in timeouts : RevealTimeout(tm)
  \/ WrapperUnmount

SpecWrapper == Init /\ [][NextWrapper]_vars

\* -------------------------------------------------------------------------
\* Claims about the Preview Player
\* -------------------------------------------------------------------------

\* C12: an instance never has more than one audio resource: the first play
\* request creates it and every later play request is made on that one.
C12_AtMostOneAudio ==
  /\ Len(audios) <= 1
  /\ state.audio \in {0, 1}
  /\ \A i \in 1..Len(attempts) :
       /\ attempts[i].audio = 1
       /\ (attempts[i].kind = "first") <=> (i = 1)

\* a failed attempt followed by two more play requests, one resource
C12_Witness ==
  /\ Len(attempts) >= 3
  /\ attempts[1].outcome = "rejected"
  /\ last.op = "resume"
  /\ Len(audios) = 1

\* the only play request so far is the first one, and it failed
FirstAttemptFailed ==
  /\ Len(attempts) = 1
  /\ attempts[1].kind = "first"
  /\ attempts[1].outcome = "rejected"

\* C13: the first play request takes an idle player to loading; when its
\* resource fails (load error or rejected play()) the player is idle again,
\* it has never been playing, no progress timer was ever started and the
\* rejection did not leave togglePlay.
C13_FailedFirstPlayReturnsToIdle ==
  [][/\ last'.op = "create" =>
          /\ ~state.isLoading /\ ~state.isPlaying
          /\ state'.isLoading /\ rendered'.isLoading
          /\ ~state'.isPlaying
     /\ (mounted' /\ FirstAttemptFailed') =>
          /\ ~state'.isLoading
          /\ ~state'.isPlaying /\ ~rendered'.isPlaying
          /\ timers' = {} /\ timerSeq' = 0
          /\ ~unhandled']_vars

\* the resource reported a load error and the player has settled
C13_Witness ==
  /\ mounted
  /\ FirstAttemptFailed
  /\ audios[1].load = "error"
  /\ rendered = state
  /\ ~rendered.isLoading

\* status paused (or idle with a resource): the committed render is not
\* playing, its effects have run, and no play request is in flight
Paused ==
  /\ mounted
  /\ rendered.audio # 0
  /\ ~rendered.isPlaying /\ ~state.isPlaying
  /\ ~effectsPending
  /\ Pending_(rendered.audio) = {}

\* C14: a pause click does not change positionSeconds and leaves the player
\* paused with no progress timer; while it is paused only a seek changes
\* positionSeconds, and it stays paused until a play request or the unmount.
C14_PauseFreezesPosition ==
  [][/\ last'.op = "pause" =>
          /\ state'.currentTime = state.currentTime
          /\ Paused'
     /\ Paused =>
          /\ timers = {}
          /\ state'.currentTime # state.currentTime => last'.op = "seek"
          /\ Paused' \/ last'.op \in {"resume", "unmount"}]_vars

\* paused in the middle of the clip, the resource still at that position
C14_Witness ==
  /\ last.op = "pause"
  /\ state.currentTime = 1
  /\ audios[1].currentTime = 1
  /\ audios[1].paused
  /\ timerSeq > 0

\* positions and durations pct is evaluated on, beyond those the player reaches
PctPositions == (0 - MaxClip)..(AudioDurationDefault + MaxClip)
PctDurations == {DurationOrDefault(d) : d \in ClipDurations}

\* C15: pct is between 0 and 100 in every render; a position above the
\* known duration gives 100 and a position below 0 gives 0.
C15_PctWithinBounds ==
  /\ Pct(rendered.currentTime, rendered.audioDuration) \in 0..100
  /\ Pct(state.currentTime, state.audioDuration) \in 0..100
  /\ rendered.currentTime > rendered.audioDuration =>
       Pct(rendered.currentTime, rendered.audioDuration) = 100
  /\ \A t \in PctPositions, d \in PctDurations :
       /\ Pct(t, d) \in 0..100
       /\ t > d => Pct(t, d) = 100
       /\ t < 0 => Pct(t, d) = 0

\* a render whose position, set by a seek, is above the duration the
\* resource reported afterwards
C15_Witness ==
  /\ seekMark.t = AudioDurationDefault
  /\ rendered.currentTime = AudioDurationDefault
  /\ rendered.audioDuration = MaxClip
  /\ Pct(rendered.currentTime, rendered.audioDuration) = 100

\* the resource has signalled completion and the player has settled: not
\* playing, everything rendered, effects run, progress timer stopped
SettledAfterEnded ==
  /\ mounted
  /\ completed
  /\ ~state.isPlaying
  /\ rendered = state
  /\ ~effectsPending
  /\ timers = {}

\* C16: once the player has settled after the resource signalled
\* completion, positionSeconds is 0, and the next play request starts
\* playback on the same resource without creating one.
C16_PositionZeroAfterEnded ==
  [][/\ SettledAfterEnded' => state'.currentTime = 0
     /\ (completed /\ last'.op \in {"create", "resume"}) =>
          /\ last'.op = "resume"
          /\ Len(audios') = Len(audios)
          /\ audios[last'.arg].load = "ready" =>
               /\ ~audios'[last'.arg].paused
               /\ audios'[last'.arg].currentTime = 0]_vars

\* the second half of C16 on its own
C16_ReplayReusesResource ==
  [][(completed /\ last'.op \in {"create", "resume"}) =>
          /\ last'.op = "resume"
          /\ Len(audios') = Len(audios)
          /\ audios[last'.arg].load = "ready" =>
               /\ ~audios'[last'.arg].paused
               /\ audios'[last'.arg].currentTime = 0]_vars

\* settled after completion with the position left at the end of the clip
C16_StalePositionAfterEnded ==
  /\ SettledAfterEnded
  /\ state.currentTime = MaxClip

\* the first play attempt was rejected and its resource reported a load error
FailedToLoad ==
  /\ Len(attempts) >= 1
  /\ attempts[1].outcome = "rejected"
  /\ audios[attempts[1].audio].load = "error"

\* C17: a play request made after the first attempt failed to load creates
\* a new audio resource and puts the player in loading again.
C17_RetryCreatesNewResource ==
  [][(FailedToLoad /\ last'.op \in {"create", "resume"}) =>
        /\ last'.op = "create"
        /\ Len(audios') = Len(audios) + 1
        /\ state'.isLoading]_vars

\* a play request was made on the resource that had failed to load
C17_RetryOnFailedResource ==
  /\ FailedToLoad
  /\ last.op = "resume"
  /\ last.arg = attempts[1].audio
  /\ Len(audios) = 1
  /\ ~state.isLoading

\* the seek input takes a change to position t
SeekAccepted(t) == ENABLED HandleSeek(t)

\* what a seek to t leaves on both sides: positionSeconds is t, and the
\* resource holds t, limited to the clip length once that is known
SeekSetsBoth(t, el, s, el2) ==
  /\ s.currentTime = t
  /\ el2.currentTime = IF el.load = "ready" THEN Min(t, el.duration) ELSE t

C19_NoStaleTickAfterSeek ==
  [][/\ (mounted /\ last'.op = "tick") =>
          state'.currentTime = audios[rendered.audio].currentTime
     /\ seekMark'.clean =>
          state'.currentTime \in {seekMark'.t, audios'[rendered'.audio].currentTime}]_vars

\* a tick that was pending at the seek ran after it and delivered t
C19_Witness ==
  /\ last.op = "tick"
  /\ seekMark.clean
  /\ seekMark.t = 1
  /\ state.currentTime = 1
  /\ rendered.currentTime = 1

\* the committed render is playing: a resource exists and isPlaying holds
RenderedPlaying == rendered.isPlaying /\ rendered.audio # 0

\* C20 as stated: while mounted a progress timer is active exactly when the
\* player is playing, there is never more than one, and none is left after
\* the unmount.
C20_Original_TimerExactlyWhenPlaying ==
  /\ mounted => (timers # {} <=> RenderedPlaying)
  /\ Cardinality(timers) <= 1
  /\ ~mounted => timers = {}

\* C20, amended: once the effects of the committed render have run, a
\* progress timer is active exactly when that render is playing; there is
\* never more than one timer, it is the one intervalRef holds, and none is
\* left after the unmount.
C20_TimerFollowsCommittedRender ==
  /\ (mounted /\ ~effectsPending) => (timers # {} <=> RenderedPlaying)
  /\ Cardinality(timers) <= 1
  /\ \A tm \in timers : tm.id = intervalRef /\ tm.audio = rendered.audio
  /\ ~mounted => timers = {}

\* unmounted while playing, with the second timer of the instance running
C20_Witness ==
  /\ last.op = "unmount"
  /\ RenderedPlaying
  /\ timerSeq >= 2
  /\ timers = {}

\* -------------------------------------------------------------------------
\* Claims about the loading wrapper
\* -------------------------------------------------------------------------

C21_UnmountReleasesPlayback ==
  ~mounted => /\ timers = {}
              /\ \A a \in 1..Len(audios) : ~Playing(audios[a])

\* the instance is unmounted and its resource has played on since
C21_OrphanedPlayback ==
  /\ ~mounted
  /\ timers = {}
  /\ Len(audios) = 1
  /\ Playing(audios[1])
  /\ last.op = "advance"

\* the play() of attempt i is rejected in this step
RejectedNow(i) == attempts[i].outcome = "pending" /\ attempts'[i].outcome = "rejected"

\* C22: a resume that the resource rejects while the player is paused on a
\* loaded clip leaves it paused: the refused play() does not touch the resource, and its
\* rejection changes neither isPlaying nor positionSeconds, starts no timer
\* and does not leave togglePlay.
C22_RejectedResumeStaysPaused ==
  [][/\ (last'.op = "resume" /\ attempts'[Len(attempts')].denied) =>
          /\ audios' = audios
          /\ state' = state /\ rendered' = rendered
          /\ timers' = timers
     /\ \A i \in 1..Len(attempts) :
          (/\ attempts[i].kind = "resume" /\ RejectedNow(i)
           /\ ~rendered.isPlaying /\ audios[attempts[i].audio].load = "ready") =>
             /\ state' = state
             /\ audios' = audios
             /\ timers' = timers
             /\ ~unhandled'
             /\ Paused => Paused']_vars

\* paused in the middle of the clip, a resume was refused and the player
\* is as it was
C22_Witness ==
  /\ last.op = "denied"
  /\ attempts[Len(attempts)].kind = "resume"
  /\ attempts[Len(attempts)].outcome = "rejected"
  /\ Paused
  /\ audios[rendered.audio].load = "ready"
  /\ audios[rendered.audio].paused
  /\ audios[rendered.audio].currentTime = 1
  /\ state.currentTime = 1

\* C23: positionSeconds is between 0 and durationSeconds in every state, in
\* the scheduled values and in the committed render.
C23_PositionWithinDuration ==
  /\ 0 <= state.currentTime /\ state.currentTime <= state.audioDuration
  /\ 0 <= rendered.currentTime /\ rendered.currentTime <= rendered.audioDuration

\* the resource reported its duration after a seek beyond it, and the
\* render shows a position past the end of the clip
C23_PositionPastDuration ==
  /\ mounted
  /\ rendered = state
  /\ rendered.audio # 0
  /\ audios[rendered.audio].load = "ready"
  /\ rendered.audioDuration = audios[rendered.audio].duration
  /\ rendered.currentTime > rendered.audioDuration

\* C24: durationSeconds is 30 until the resource reports its duration; the
\* report sets it to the reported length, or leaves 30 when the report is
\* zero or unknown; it changes in no other step, and a resource reports once.
C24_DurationSetOnceFromReport ==
  [][/\ state.audioDuration # AudioDurationDefault =>
          \E a \in 1..Len(audios) : audios[a].duration = state.audioDuration
     /\ state'.audioDuration # state.audioDuration =>
          /\ last'.op = "loadedmetadata"
          /\ state.audioDuration = AudioDurationDefault
          /\ audios[last'.arg].load = "loading"
     /\ (mounted /\ last'.op = "loadedmetadata") =>
          state'.audioDuration =
             IF audios'[last'.arg].duration = 0 THEN AudioDurationDefault
             ELSE audios'[last'.arg].duration
     /\ \A a \in 1..Len(audios) :
          audios[a].load # "loading" =>
             /\ audios'[a].load # "loading"
             /\ audios'[a].duration = audios[a].duration]_vars

\* the clip reported its length, was played to its end, and the duration
\* is still the reported one
C24_Witness ==
  /\ mounted
  /\ completed
  /\ rendered.audio # 0
  /\ audios[rendered.audio].duration = MaxClip
  /\ state.audioDuration = MaxClip
  /\ rendered.audioDuration = MaxClip

\* C25: positionSeconds never decreases except by a seek, by a progress
\* update that follows a seek before the resource has moved again, or by
\* the reset to 0 at natural completion; in particular the progress updates
\* made while playing are non-decreasing.
C25_PositionDecreasesOnlyBySeekOrEnded ==
  [][state'.currentTime < state.currentTime =>
        \/ last'.op = "seek"
        \/ last'.op = "tick" /\ seekMark.clean
        \/ last'.op = "ended" /\ state'.currentTime = 0]_vars

\* no seek was ever made, the render shows the end of the clip, the player
\* is playing again and a progress update has just delivered 0
C25_TickMovedPositionBack ==
  /\ mounted
  /\ seekMark.t = -1
  /\ rendered.isPlaying
  /\ rendered.currentTime = MaxClip
  /\ last.op = "tick"
  /\ state.currentTime = 0


\* --------------------------------------------- Further claims: request path
\* the upstream answered the tool's request with a JSON body whose error
\* field is a non-empty string
UpstreamErrorString ==
  /\ origin = "tool"
  /\ upstream.t = "response" /\ upstream.json
  /\ upstream.body.error.t = "string" /\ upstream.body.error.v # <<>>

\* C26: no content of an upstream response reaches the end user through an
\* error: whatever the upstream outcome, the message of the error raised by
\* the fetch client and re-raised by the agent tool does not carry the text
\* of the upstream payload's error field.
C26_ErrorCarriesNoUpstreamContent ==
  (UpstreamErrorString /\ pc = "done") =>
    /\ clientResult.t = "throw" => ~Names(clientResult.msg, upstream.body.error.v)
    /\ toolResult.t = "throw" => ~Names(toolResult.msg, upstream.body.error.v)

\* the upstream answered a search with status 200 and an error string, and
\* the tool failed with exactly that string as its message
C26_UpstreamErrorShownToUser ==
  /\ UpstreamErrorString /\ pc = "done" /\ op = "search"
  /\ upstream.status = 200
  /\ upstream.body.error = Str(<<"Quota limit exceeded">>)
  /\ proxyResponse.status = 200
  /\ clientResult = Throw(<<"Quota limit exceeded">>)
  /\ toolResult = Throw(<<"Quota limit exceeded">>)

\* ------------------------------------------------ one tool call or one card
\* A chat turn exercises either the request path of one tool invocation or the
\* player of one card; the two share no state, so each runs with the other at
\* rest in its initial state.
NextSession ==
  \/ PlayerInit /\ Next
  \/ pc = "idle" /\ NextPlayer

SpecSession == Init /\ [][NextSession]_vars

\* a play button press: the only steps of togglePlay that call play()
PlayPressed(op_) == op_ \in {"create", "resume"}

\* C27: nothing is retried automatically: one tool invocation causes at most
\* one proxy request and at most one upstream request whether it succeeds or
\* fails, and a begin-playback request is made only by a press of the play
\* button, one per press, never by a step that follows a failed attempt.
C27_NothingRetried ==
  [][/\ Len(proxyReqs') <= 1
     /\ Len(upstreamReqs') <= 1
     /\ attempts' # attempts =>
          \/ /\ PlayPressed(last'.op)
             /\ Len(attempts') = Len(attempts) + 1
             /\ SubSeq(attempts', 1, Len(attempts)) = attempts
          \/ Len(attempts') = Len(attempts)
     /\ Len(audios') > Len(audios) => last'.op = "create"]_vars

\* player: the first attempt was rejected, the user pressed play again, that
\* attempt was rejected too, and there are two attempts
C27_Witness ==
  /\ mounted
  /\ Len(attempts) = 2
  /\ attempts[1].outcome = "rejected"
  /\ attempts[2].outcome = "rejected"
  /\ ~PlayPressed(last.op)

\* C28: whenever the player reports playing it is not also loading, in the
\* values its handlers have set and in the committed render alike, so the
\* play/pause button of a card that shows playing is enabled; this holds in
\* every order of the play() completions and the metadata and error events.
C28_PlayingIsNotLoading ==
  /\ state.isPlaying => ~state.isLoading
  /\ rendered.isPlaying => ~rendered.isLoading /\ ~PlayDisabled(rendered)

\* the first play() was rejected, a second press started playback, and the card shows playing with its button enabled
C28_Witness ==
  /\ mounted
  /\ Len(attempts) = 2
  /\ attempts[1].outcome = "rejected"
  /\ attempts[2].outcome = "resolved"
  /\ rendered.isPlaying /\ state.isPlaying
  /\ ~PlayDisabled(rendered)

\* -------------------------------------------------------------------------
\* Further claims about the loading wrapper
\* -------------------------------------------------------------------------

\* C29: hasBeenInitialized implies that showSkeleton is false, in the state
\* cells and in every committed render; and once the wrapper has rendered
\* the player, no later render shows the skeleton while title, artist and
\* preview are present, whatever generation stage the thread is in.
C29_InitializedHidesSkeleton ==
  [][/\ wState'.hasBeenInitialized => ~wState'.showSkeleton
     /\ wRendered'.hasBeenInitialized => ~wRendered'.showSkeleton
     /\ (/\ wMounted'
         /\ WrapperOutput(wRendered) = "card"
         /\ IsComponentComplete(wRendered'.props))
          => WrapperOutput(wRendered') = "card"]_vars

\* a committed render of a mounted wrapper with all three props has
\* hasBeenInitialized and showSkeleton both true, and shows the skeleton
C29_SkeletonWhileInitialized ==
  /\ wMounted
  /\ IsComponentComplete(wRendered.props)
  /\ wRendered.hasBeenInitialized /\ wRendered.showSkeleton
  /\ WrapperOutput(wRendered) = "skeleton"

\* the part of C29 that holds: once the wrapper has rendered the player, no
\* later render shows the skeleton while title, artist and preview are
\* present, whatever generation stage the thread is in.
C29_NoSkeletonAfterReveal ==
  [][(/\ wMounted'
      /\ WrapperOutput(wRendered) = "card"
      /\ IsComponentComplete(wRendered'.props))
       => WrapperOutput(wRendered') = "card"]_vars

\* the wrapper's effects and timers make progress: React runs a scheduled
\* render and the effects of a commit, and an armed timer that is not
\* cleared fires
WrapperFairness ==
  /\ WF_vars(WrapperRender)
  /\ WF_vars(WrapperEffects)
  /\ WF_vars(\E tm \in timeouts : RevealTimeout(tm))

SpecWrapperLive == SpecWrapper /\ WrapperFairness

\* the render in which the wrapper shows the player although its previous
\* render had not been initialized
FirstReveal(r, r2) ==
  ~r.hasBeenInitialized /\ r2.hasBeenInitialized /\ WrapperOutput(r2) = "card"

\* title, artist and preview are present and the thread is not streaming
ReadyToReveal ==
  wMounted /\ IsComponentComplete(props) /\ ~IsStreaming(generationStage)

\* C30: the player is never revealed for the first time in a render that
\* sees the thread in a streaming or loading generation stage; and if title,
\* artist and preview are present and the thread stops streaming and stays
\* so, the wrapper eventually shows the player.
C30_RevealedOnlyAfterStreaming ==
  /\ [][FirstReveal(wRendered, wRendered') =>
          ~IsStreaming(wRendered'.generationStage)]_vars
  /\ (<>[]ReadyToReveal => <>(WrapperOutput(wRendered) = "card"))

\* the player has just been revealed for the first time, in a render of a
\* streaming stage, by a reveal timer that was not cleared in time
C30_RevealedWhileStreaming ==
  /\ wMounted
  /\ IsStreaming(wRendered.generationStage)
  /\ wRendered.hasBeenInitialized
  /\ WrapperOutput(wRendered) = "card"
  /\ wDeps # <<>> /\ ~wDeps[3]

\* the part of C30 that holds: if title, artist and preview are present and the thread
\* stops streaming and stays so, the wrapper eventually shows the player.
C30_EventuallyRevealed ==
  <>[]ReadyToReveal => <>(WrapperOutput(wRendered) = "card")

====
